---- MODULE Spec2Model ----
(***************************************************************************)
(* count_locs: a command-line tool that counts the non-blank lines of the  *)
(* files matched by glob patterns under a directory (src/src/main.go).     *)
(*                                                                         *)
(* The model follows one run of the program: main inspects os.Args,        *)
(* processInput resolves the directory, countLocs expands one pattern      *)
(* after the other and spawns one goroutine per matched regular file; the  *)
(* goroutines share a semaphore channel, a wait group and an accumulator.  *)
(* Every statement of a goroutine that touches shared state is one step.   *)
(***************************************************************************)
EXTENDS Integers, Sequences, FiniteSets, TLC

(***************************************************************************)
(* Bounds of the model.                                                    *)
(***************************************************************************)
\* runtime.NumCPU() of the host: the capacity of the semaphore channel.
NumCPU == 2
\* The largest number of glob patterns on the command line.
MaxPatterns == 2
\* The largest number of symbols in a file whose content is enumerated.
MaxFileLen == 4

\* bufio.MaxScanTokenSize = 64 * 1024: the default buffer limit of the
\* bufio.Scanner that countLines creates with bufio.NewScanner.
MaxScanTokenSize == 65536

(***************************************************************************)
(* The environment: file contents, the directory tree, the command line.   *)
(***************************************************************************)
\* The symbols of a file. "a" is a non-space byte, " " a space, "\n" the
\* newline; "L" stands for a run of MaxScanTokenSize non-space bytes with
\* no newline in it (the way a minified file has one very long line).
Symbols == {"a", " ", "\n", "L"}

\* The number of bytes a sequence of symbols stands for.
RECURSIVE Bytes(_)
Bytes(s) ==
    IF s = <<>> THEN 0
    ELSE (IF Head(s) = "L" THEN MaxScanTokenSize ELSE 1) + Bytes(Tail(s))

\* unicode.IsSpace on the symbols of the model.
IsSpace(c) == c \in {" ", "\n"}

\* All sequences over S of length at most n.
SeqsUpTo(S, n) == UNION {[1..k -> S] : k \in 0..n}

\* The paths of the tree under the root, in the lexical order in which the
\* glob walk returns them.
Paths == <<"a.rs", "sub/b.rs", "sub/c.ts">>
PathSet == {Paths[k] : k \in 1..Len(Paths)}

\* An entry of the tree: a directory, an entry whose stat fails, a file
\* that stats but cannot be opened, or a readable file with its content.
Dir == [kind |-> "dir", content |-> <<>>]
StatFail == [kind |-> "statfail", content |-> <<>>]
NoOpen == [kind |-> "noopen", content |-> <<>>]
File(c) == [kind |-> "file", content |-> c]

\* The contents of the files of the tests, a non-space byte for every word:
\* "Log line\n", "Hello\nWorld\n\n" and "Line one\n\n   \nLine two\nLine three\n",
\* with 1, 2 and 3 non-blank lines.
OneLine == <<"a", "\n">>
TwoLines == <<"a", "\n", "a", "\n", "\n">>
ThreeLines == <<"a", "\n", "\n", " ", "\n", "a", "\n", "a", "\n">>

SmallEntries == {Dir, StatFail, NoOpen, File(OneLine), File(TwoLines)}

\* The trees of the runs: one of three readable files, every combination of
\* the small entries, and trees whose only file takes every content up to
\* MaxFileLen symbols.
PlainTree == [p \in PathSet |->
                 CASE p = "a.rs" -> File(OneLine)
                   [] p = "sub/b.rs" -> File(TwoLines)
                   [] OTHER -> File(ThreeLines)]
MixedTrees == [PathSet -> SmallEntries]
ContentTrees == {[p \in PathSet |->
                     CASE p = "a.rs" -> File(c)
                       [] p = "sub/b.rs" -> Dir
                       [] OTHER -> StatFail] :
                    c \in SeqsUpTo(Symbols, MaxFileLen)}
Trees == {PlainTree} \cup MixedTrees \cup ContentTrees

\* The glob patterns of the runs. "[" is a malformed pattern.
PatternSet == {"**/*.rs", "**/*", "["}
PatternLists == UNION {[1..k -> PatternSet] : k \in 1..MaxPatterns}

\* The directory arguments: a relative path that exists, a relative path
\* that does not exist, an absolute path that exists.
Dirs == {"src", "missing", "/w/src"}

ProgName == "count_locs"
Flags == {"-h", "--help", "-v", "--version"}

\* os.Args of the runs, the program name first.
ArgLists ==
    {<<ProgName>>}
    \cup {<<ProgName, x>> : x \in Flags \cup {"src"}}
    \cup {<<ProgName, d>> \o ps : d \in Dirs, ps \in PatternLists}

\* The command lines that are combined with every tree.
OnePattern == <<ProgName, "src", "**/*">>
PlainArgs == {OnePattern, <<ProgName, "src", "**/*.rs", "**/*">>}

(***************************************************************************)
(* Library functions, modelled by what they do.                            *)
(***************************************************************************)
\* filepath.IsAbs.
IsAbs(path) == path = "/w/src"

\* filepath.Abs: an absolute path is returned cleaned; a relative path is
\* joined to the working directory, and fails when os.Getwd fails. The
\* existence of the path is not looked at.
Abs(path, getwdOk) ==
    IF IsAbs(path) THEN [err |-> FALSE, path |-> path]
    ELSE IF ~getwdOk THEN [err |-> TRUE, path |-> ""]
    ELSE [err |-> FALSE, path |-> IF path = "src" THEN "/w/src" ELSE "/w/missing"]

\* The one directory that exists.
RootExists(root) == root = "/w/src"

\* doublestar.ValidatePattern.
ValidatePattern(pattern) == pattern # "["

\* doublestar.Match of a pattern against a path of the tree.
MatchPath(pattern, path) ==
    CASE pattern = "**/*.rs" -> path \in {"a.rs", "sub/b.rs"}
      [] pattern = "**/*" -> TRUE
      [] OTHER -> FALSE

\* doublestar.Glob(os.DirFS(root), pattern): ErrBadPattern for a malformed
\* pattern; otherwise the matched paths in walk order. Errors of the file
\* system, a root that does not exist among them, are ignored and give no
\* matches.
Glob(root, pattern) ==
    IF ~ValidatePattern(pattern) THEN [err |-> TRUE, matches |-> <<>>]
    ELSE IF ~RootExists(root) THEN [err |-> FALSE, matches |-> <<>>]
    ELSE [err |-> FALSE,
          matches |-> SelectSeq(Paths, LAMBDA p : MatchPath(pattern, p))]

\* strings.TrimSpace: the line without its leading and trailing white space.
RECURSIVE TrimLeft(_)
TrimLeft(s) ==
    IF s # <<>> /\ IsSpace(Head(s)) THEN TrimLeft(Tail(s)) ELSE s
RECURSIVE TrimRight(_)
TrimRight(s) ==
    IF s # <<>> /\ IsSpace(s[Len(s)]) THEN TrimRight(SubSeq(s, 1, Len(s) - 1)) ELSE s
TrimSpace(s) == TrimRight(TrimLeft(s))

\* The index of the first newline of data at or after start, 0 if none.
RECURSIVE IndexNewline(_, _)
IndexNewline(data, start) ==
    IF start > Len(data) THEN 0
    ELSE IF data[start] = "\n" THEN start
    ELSE IndexNewline(data, start + 1)

(***************************************************************************)
(* countLines.                                                             *)
(***************************************************************************)
\* The loop `for scanner.Scan()` of countLines over the bytes from start on.
\* Scan returns the next line without its newline; the last line needs no
\* newline; at the end of the data Scan returns false. Scan also returns
\* false, with an error that countLines does not look at, when
\* MaxScanTokenSize bytes are buffered and hold no newline.
RECURSIVE ScanLoop(_, _, _)
ScanLoop(data, start, count) ==
    IF start > Len(data) THEN count
    ELSE LET nl == IndexNewline(data, start)
             line == SubSeq(data, start, IF nl = 0 THEN Len(data) ELSE nl - 1)
             counted == IF TrimSpace(line) # <<>> THEN count + 1 ELSE count
         IN  IF Bytes(line) >= MaxScanTokenSize THEN count
             ELSE IF nl = 0 THEN counted
             ELSE ScanLoop(data, nl + 1, counted)

\* countLines(filePath) on an entry of the tree: 0 if os.Open fails.
countLines(entry) ==
    IF entry.kind # "file" THEN 0 ELSE ScanLoop(entry.content, 1, 0)

(***************************************************************************)
(* The state of one run.                                                   *)
(***************************************************************************)
VARIABLES
    args,       \* os.Args; args[1] is the program name (os.Args[0] in Go)
    wdOk,       \* whether os.Getwd succeeds
    tree,       \* the entries of the directory tree under /w/src
    pc,         \* where the main goroutine stands
    calls,      \* how many times processInput has been called
    dir,        \* processInput: the parameter dir
    patterns,   \* processInput and countLocs: the parameter patterns
    root,       \* countLocs: the parameter root (absDir of processInput)
    results,    \* countLocs: the map results
    pi,         \* countLocs: the position of the loop over patterns
    matches,    \* countLocs: the matches of the current pattern
    mi,         \* countLocs: the position of the loop over matches
    total,      \* total[i]: the variable total of the i-th iteration
    wg,         \* wg[i]: the counter of the wait group of the i-th iteration
    sem,        \* sem[i]: the number of tokens in the channel sem
    wpc,        \* wpc[<<i, p>>]: where the goroutine spawned for path p stands
    wcount,     \* wcount[<<i, p>>]: the variable count of that goroutine
    stdout,     \* the lines written to standard output
    stderr,     \* the lines written to standard error
    exitCode    \* the exit status; -1 while the process runs

vars == <<args, wdOk, tree, pc, calls, dir, patterns, root, results, pi,
          matches, mi, total, wg, sem, wpc, wcount, stdout, stderr, exitCode>>

env == <<args, wdOk, tree>>
callVars == <<calls, dir, patterns>>
loopVars == <<root, results, pi, matches, mi>>
syncVars == <<total, wg, sem>>
workerVars == <<wpc, wcount>>
outVars == <<stdout, stderr, exitCode>>

PatIdx == 1..MaxPatterns
WorkerIds == PatIdx \X PathSet

\* The lines the program prints.
UsageLine == [kind |-> "usage"]
HelpText == [kind |-> "help"]
VersionLine == [kind |-> "version"]
ResolveError == [kind |-> "resolve error"]
PatternError(p) == [kind |-> "pattern error", pattern |-> p]
Header == [kind |-> "header"]
Blank == [kind |-> "blank"]
Entry(p, n) == [kind |-> "entry", pattern |-> p, count |-> n]
TotalLine(n) == [kind |-> "total", count |-> n]
Elapsed == [kind |-> "elapsed"]

Init ==
    /\ args \in ArgLists
    /\ wdOk \in BOOLEAN
    /\ tree \in Trees
    /\ \/ tree = PlainTree
       \/ tree \in MixedTrees /\ args \in PlainArgs /\ wdOk
       \/ tree \in ContentTrees /\ args = OnePattern /\ wdOk
    /\ pc = "main"
    /\ calls = 0
    /\ dir = ""
    /\ patterns = <<>>
    /\ root = ""
    /\ results = <<>>
    /\ pi = 1
    /\ matches = <<>>
    /\ mi = 1
    /\ total = [i \in PatIdx |-> 0]
    /\ wg = [i \in PatIdx |-> 0]
    /\ sem = [i \in PatIdx |-> 0]
    /\ wpc = [w \in WorkerIds |-> "none"]
    /\ wcount = [w \in WorkerIds |-> 0]
    /\ stdout = <<>>
    /\ stderr = <<>>
    /\ exitCode = -1

(***************************************************************************)
(* main.                                                                   *)
(***************************************************************************)
\* len(args) < 2: the usage line on standard error, os.Exit(1).
MainNoArgs ==
    /\ pc = "main"
    /\ Len(args) < 2
    /\ stderr' = Append(stderr, UsageLine)
    /\ exitCode' = 1
    /\ pc' = "exit"
    /\ UNCHANGED <<env, callVars, loopVars, syncVars, workerVars, stdout>>

\* len(args) == 2 and args[1] is -h or --help: printHelp, return.
MainHelp ==
    /\ pc = "main"
    /\ Len(args) = 2
    /\ args[2] \in {"-h", "--help"}
    /\ stdout' = Append(stdout, HelpText)
    /\ exitCode' = 0
    /\ pc' = "exit"
    /\ UNCHANGED <<env, callVars, loopVars, syncVars, workerVars, stderr>>

\* len(args) == 2 and args[1] is -v or --version: printVersion, return.
MainVersion ==
    /\ pc = "main"
    /\ Len(args) = 2
    /\ args[2] \in {"-v", "--version"}
    /\ stdout' = Append(stdout, VersionLine)
    /\ exitCode' = 0
    /\ pc' = "exit"
    /\ UNCHANGED <<env, callVars, loopVars, syncVars, workerVars, stderr>>

\* Variant: the single argument is taken for the directory.
MainOneArgAsDir ==
    /\ pc = "main"
    /\ Len(args) = 2
    /\ args[2] \notin Flags
    /\ dir' = args[2]
    /\ patterns' = SubSeq(args, 3, Len(args))
    /\ calls' = calls + 1
    /\ pc' = "processInput"
    /\ UNCHANGED <<env, loopVars, syncVars, workerVars, outVars>>

\* len(args) == 2 and args[1] is no flag: the usage line, os.Exit(1).
MainOneArg ==
    /\ pc = "main"
    /\ Len(args) = 2
    /\ args[2] \notin Flags
    /\ stderr' = Append(stderr, UsageLine)
    /\ exitCode' = 1
    /\ pc' = "exit"
    /\ UNCHANGED <<env, callVars, loopVars, syncVars, workerVars, stdout>>

\* Otherwise: processInput(args[1], args[2:]).
MainCall ==
    /\ pc = "main"
    /\ Len(args) > 2
    /\ dir' = args[2]
    /\ patterns' = SubSeq(args, 3, Len(args))
    /\ calls' = calls + 1
    /\ pc' = "processInput"
    /\ UNCHANGED <<env, loopVars, syncVars, workerVars, outVars>>

(***************************************************************************)
(* processInput, up to the call of countLocs.                              *)
(***************************************************************************)
\* filepath.Abs(dir) fails: the message on standard error, os.Exit(1).
AbsFail ==
    /\ pc = "processInput"
    /\ Abs(dir, wdOk).err
    /\ stderr' = Append(stderr, ResolveError)
    /\ exitCode' = 1
    /\ pc' = "exit"
    /\ UNCHANGED <<env, callVars, loopVars, syncVars, workerVars, stdout>>

\* filepath.Abs(dir) succeeds: countLocs(absDir, patterns) starts with an
\* empty map.
AbsOk ==
    /\ pc = "processInput"
    /\ ~Abs(dir, wdOk).err
    /\ root' = Abs(dir, wdOk).path
    /\ results' = <<>>
    /\ pi' = 1
    /\ pc' = "patterns"
    /\ UNCHANGED <<env, callVars, matches, mi, syncVars, workerVars, outVars>>

(***************************************************************************)
(* countLocs: the main goroutine.                                          *)
(***************************************************************************)
\* The pattern of the current iteration of `for _, pattern := range patterns`.
Pattern == patterns[pi]

\* Variant: return at the error instead of continue.
GlobErrReturn ==
    /\ pc = "patterns"
    /\ pi <= Len(patterns)
    /\ Glob(root, Pattern).err
    /\ stderr' = Append(stderr, PatternError(Pattern))
    /\ pc' = "report"
    /\ UNCHANGED <<env, callVars, loopVars, syncVars, workerVars, stdout, exitCode>>

\* doublestar.Glob returns an error: the message on standard error, continue.
GlobErr ==
    /\ pc = "patterns"
    /\ pi <= Len(patterns)
    /\ Glob(root, Pattern).err
    /\ stderr' = Append(stderr, PatternError(Pattern))
    /\ pi' = pi + 1
    /\ UNCHANGED <<env, pc, callVars, root, results, matches, mi, syncVars,
                   workerVars, stdout, exitCode>>

\* doublestar.Glob returns the matches: total, wg and sem of this iteration
\* are created, the loop over the matches starts.
GlobOk ==
    /\ pc = "patterns"
    /\ pi <= Len(patterns)
    /\ ~Glob(root, Pattern).err
    /\ matches' = Glob(root, Pattern).matches
    /\ mi' = 1
    /\ total' = [total EXCEPT ![pi] = 0]
    /\ wg' = [wg EXCEPT ![pi] = 0]
    /\ sem' = [sem EXCEPT ![pi] = 0]
    /\ pc' = "files"
    /\ UNCHANGED <<env, callVars, root, results, pi, workerVars, outVars>>

\* os.Stat(fullPath) fails or the entry is a directory: continue.
SkipEntry ==
    /\ pc = "files"
    /\ mi <= Len(matches)
    /\ tree[matches[mi]].kind \in {"statfail", "dir"}
    /\ mi' = mi + 1
    /\ UNCHANGED <<env, pc, callVars, root, results, pi, matches, syncVars,
                   workerVars, outVars>>

\* Otherwise: wg.Add(1) and `go func(filePath string) {...}(fullPath)`.
Spawn ==
    /\ pc = "files"
    /\ mi <= Len(matches)
    /\ tree[matches[mi]].kind \notin {"statfail", "dir"}
    /\ wg' = [wg EXCEPT ![pi] = @ + 1]
    /\ wpc' = [wpc EXCEPT ![<<pi, matches[mi]>>] = "start"]
    /\ mi' = mi + 1
    /\ UNCHANGED <<env, pc, callVars, root, results, pi, matches, total, sem,
                   wcount, outVars>>

\* Variant: the total is stored without waiting for the goroutines.
WaitNoBarrier ==
    /\ pc = "files"
    /\ mi > Len(matches)
    /\ results' = (Pattern :> total[pi]) @@ results
    /\ pi' = pi + 1
    /\ pc' = "patterns"
    /\ UNCHANGED <<env, callVars, root, matches, mi, syncVars, workerVars, outVars>>

\* wg.Wait() returns once the counter is zero; results[pattern] = int(total)
\* and the next iteration.
Wait ==
    /\ pc = "files"
    /\ mi > Len(matches)
    /\ wg[pi] = 0
    /\ results' = (Pattern :> total[pi]) @@ results
    /\ pi' = pi + 1
    /\ pc' = "patterns"
    /\ UNCHANGED <<env, callVars, root, matches, mi, syncVars, workerVars, outVars>>

\* The loop over the patterns is over: return results.
Return ==
    /\ pc = "patterns"
    /\ pi > Len(patterns)
    /\ pc' = "report"
    /\ UNCHANGED <<env, callVars, loopVars, syncVars, workerVars, outVars>>

(***************************************************************************)
(* countLocs: the goroutine spawned for the path p in iteration i.         *)
(***************************************************************************)
WorkerStep(i, p, from, to) ==
    /\ wpc[<<i, p>>] = from
    /\ wpc' = [wpc EXCEPT ![<<i, p>>] = to]

\* Variant: a channel without a capacity limit.
AcquireNoLimit(i, p) ==
    /\ WorkerStep(i, p, "start", "acquired")
    /\ sem' = [sem EXCEPT ![i] = @ + 1]
    /\ UNCHANGED <<env, pc, callVars, loopVars, total, wg, wcount, outVars>>

\* sem <- struct{}{}: blocks while the channel holds NumCPU tokens.
Acquire(i, p) ==
    /\ sem[i] < NumCPU
    /\ AcquireNoLimit(i, p)

\* count := countLines(filePath)
CountLines(i, p) ==
    /\ WorkerStep(i, p, "acquired", "counted")
    /\ wcount' = [wcount EXCEPT ![<<i, p>>] = countLines(tree[p])]
    /\ UNCHANGED <<env, pc, callVars, loopVars, syncVars, outVars>>

\* Variant: a plain store that loses the adds of the other goroutines.
AtomicAddLost(i, p) ==
    /\ WorkerStep(i, p, "counted", "added")
    /\ total' = [total EXCEPT ![i] = wcount[<<i, p>>]]
    /\ UNCHANGED <<env, pc, callVars, loopVars, wg, sem, wcount, outVars>>

\* atomic.AddInt64(&total, int64(count))
AtomicAdd(i, p) ==
    /\ WorkerStep(i, p, "counted", "added")
    /\ total' = [total EXCEPT ![i] = @ + wcount[<<i, p>>]]
    /\ UNCHANGED <<env, pc, callVars, loopVars, wg, sem, wcount, outVars>>

\* Variant: the slot is never given back.
ReleaseNothing(i, p) ==
    /\ WorkerStep(i, p, "added", "released")
    /\ UNCHANGED <<env, pc, callVars, loopVars, syncVars, wcount, outVars>>

\* <-sem
Release(i, p) ==
    /\ WorkerStep(i, p, "added", "released")
    /\ sem' = [sem EXCEPT ![i] = @ - 1]
    /\ UNCHANGED <<env, pc, callVars, loopVars, total, wg, wcount, outVars>>

\* The deferred wg.Done(): the goroutine ends.
Done(i, p) ==
    /\ WorkerStep(i, p, "released", "done")
    /\ wg' = [wg EXCEPT ![i] = @ - 1]
    /\ UNCHANGED <<env, pc, callVars, loopVars, total, sem, wcount, outVars>>

(***************************************************************************)
(* processInput, after countLocs has returned.                             *)
(***************************************************************************)
\* The sum of the values of a map over the keys in S.
RECURSIVE SumOver(_, _)
SumOver(m, S) ==
    IF S = {} THEN 0
    ELSE LET k == CHOOSE x \in S : TRUE IN m[k] + SumOver(m, S \ {k})

\* Variant: `totalLines = count` in place of `+=`.
TotalLinesAssigned(res) ==
    IF DOMAIN res = {} THEN 0 ELSE res[CHOOSE k \in DOMAIN res : TRUE]

\* `for _, count := range results { totalLines += count }`
TotalLines(res) == SumOver(res, DOMAIN res)

\* The orders in which `range results` can visit the keys of the map: the
\* iteration order of a Go map is unspecified and differs from run to run.
RangeOrders(m) ==
    {o \in [1..Cardinality(DOMAIN m) -> DOMAIN m] :
        \A j, k \in DOMAIN o : j # k => o[j] # o[k]}

\* The breakdown if there is more than one pattern, then the total and the
\* elapsed time; processInput and main return.
Report ==
    /\ pc = "report"
    /\ \E o \in RangeOrders(results) :
          stdout' = stdout
                    \o (IF Len(patterns) > 1
                        THEN <<Header, Blank>>
                             \o [k \in DOMAIN o |-> Entry(o[k], results[o[k]])]
                             \o <<Blank>>
                        ELSE <<>>)
                    \o <<TotalLine(TotalLines(results)), Blank, Elapsed>>
    /\ exitCode' = 0
    /\ pc' = "exit"
    /\ UNCHANGED <<env, callVars, loopVars, syncVars, workerVars, stderr>>

(***************************************************************************)
(* The run.                                                                *)
(***************************************************************************)
Main == MainNoArgs \/ MainHelp \/ MainVersion \/ MainOneArg \/ MainCall

Driver ==
    \/ AbsFail \/ AbsOk
    \/ GlobErr \/ GlobOk \/ SkipEntry \/ Spawn \/ Wait \/ Return
    \/ Report

Worker(i, p) ==
    \/ Acquire(i, p) \/ CountLines(i, p) \/ AtomicAdd(i, p)
    \/ Release(i, p) \/ Done(i, p)

Next ==
    \/ Main
    \/ Driver
    \/ \E i \in PatIdx, p \in PathSet : Worker(i, p)

Spec == Init /\ [][Next]_vars

\* The runs on the tree of three readable files, for every command line, and
\* on the trees that have a directory in the middle.
InitFair ==
    /\ Init
    /\ tree = PlainTree \/ (tree \in MixedTrees /\ tree["sub/b.rs"] = Dir)

\* The Go scheduler runs a goroutine that can take a step: some enabled step
\* is eventually taken.
FairSpec == InitFair /\ [][Next]_vars /\ WF_vars(Next)

(***************************************************************************)
(* Definitions the properties are stated with.                             *)
(***************************************************************************)
\* The goroutine has been spawned and has not ended.
Live(w) == wpc[w] \in {"start", "acquired", "counted", "added", "released"}
\* The goroutine holds a slot of the semaphore.
HoldsSlot(w) == wpc[w] \in {"acquired", "counted", "added"}
\* The goroutine has the result of countLines in count.
HasCounted(w) == wpc[w] \in {"counted", "added", "released", "done"}

\* The paths a pattern matches under the root of the run.
Matched(p) ==
    IF RootExists(root) THEN {x \in PathSet : MatchPath(p, x)} ELSE {}
\* Those that stat and are no directories.
RegularMatches(p) == {x \in Matched(p) : tree[x].kind \notin {"statfail", "dir"}}

\* The sum of countLines over the regular matches of a pattern.
RECURSIVE SumOfCounts(_)
SumOfCounts(S) ==
    IF S = {} THEN 0
    ELSE LET x == CHOOSE y \in S : TRUE
         IN  countLines(tree[x]) + SumOfCounts(S \ {x})
ExpectedTotal(p) == SumOfCounts(RegularMatches(p))

\* The number of lines of data that hold a byte that is no white space: a
\* line starts at the first byte and after every newline and extends to the
\* next newline.
NonBlankLines(data) ==
    Cardinality({i \in 1..Len(data) :
        /\ i = 1 \/ data[i - 1] = "\n"
        /\ \E j \in i..Len(data) :
              /\ ~IsSpace(data[j])
              /\ \A k \in i..j : data[k] # "\n"})

\* The supplied patterns that expand without error.
ValidPatterns == {patterns[k] : k \in {j \in 1..Len(patterns) : ValidatePattern(patterns[j])}}

\* processInput was called, resolved the directory and has returned.
Reported == pc = "exit" /\ calls = 1 /\ ~Abs(dir, wdOk).err

\* The lines of the breakdown and of the total on standard output.
EntryLines == SelectSeq(stdout, LAMBDA l : l.kind = "entry")
PrintedTotals == SelectSeq(stdout, LAMBDA l : l.kind = "total")

(***************************************************************************)
(* C1. For every pattern that expands without error and every interleaving *)
(* of the goroutines, results[pattern] is the sum of countLines(file) over *)
(* the matched entries that stat and are no directories; directories,      *)
(* entries whose stat fails and files that cannot be opened add 0.         *)
(***************************************************************************)
C1_TotalIsSumOfCounts ==
    \A p \in DOMAIN results :
        /\ results[p] = ExpectedTotal(p)
        /\ \A x \in Matched(p) : tree[x].kind # "file" => countLines(tree[x]) = 0

C1_Witness ==
    /\ pc = "exit"
    /\ \E p \in DOMAIN results :
          /\ results[p] >= 3
          /\ Cardinality({x \in Matched(p) : tree[x].kind = "file"}) >= 2
          /\ \E x \in Matched(p) : tree[x].kind \in {"dir", "statfail", "noopen"}

(***************************************************************************)
(* C2. For every file that can be opened countLines returns the number of  *)
(* its lines that are non-empty after white space is trimmed; for a file   *)
(* that cannot be opened it returns 0.                                     *)
(***************************************************************************)
C2_CountLinesExact ==
    \A w \in WorkerIds :
        HasCounted(w) =>
            wcount[w] = IF tree[w[2]].kind = "file"
                        THEN NonBlankLines(tree[w[2]].content)
                        ELSE 0

\* The same for the files none of whose lines reaches MaxScanTokenSize bytes.
C2_ExactForShortLines ==
    \A w \in WorkerIds :
        HasCounted(w) /\ "L" \notin {tree[w[2]].content[k] : k \in DOMAIN tree[w[2]].content} =>
            wcount[w] = IF tree[w[2]].kind = "file"
                        THEN NonBlankLines(tree[w[2]].content)
                        ELSE 0

(***************************************************************************)
(* C3. With more than one pattern the breakdown prints the supplied        *)
(* patterns in the order they were given on the command line: the patterns *)
(* of the printed lines, read from top to bottom, occur in that order in   *)
(* the list of arguments. Stated for the runs on a directory that exists.  *)
(***************************************************************************)
C3_BreakdownInInputOrder ==
    Reported /\ Len(patterns) > 1 /\ RootExists(root) =>
        \E pos \in [DOMAIN EntryLines -> DOMAIN patterns] :
            /\ \A k \in DOMAIN EntryLines : patterns[pos[k]] = EntryLines[k].pattern
            /\ \A j, k \in DOMAIN EntryLines : j < k => pos[j] < pos[k]

\* What the code does print: one line for every key of results, each key
\* once, with its value.
C3_BreakdownListsResults ==
    Reported /\ Len(patterns) > 1 =>
        /\ {EntryLines[k] : k \in DOMAIN EntryLines}
              = {Entry(p, results[p]) : p \in DOMAIN results}
        /\ Len(EntryLines) = Cardinality(DOMAIN results)

(***************************************************************************)
(* C4. The printed grand total is the sum of the per-pattern totals of the *)
(* result map, whose keys are the distinct supplied patterns that expanded *)
(* without error: a pattern supplied twice is added once, a pattern whose  *)
(* expansion failed adds nothing.                                          *)
(***************************************************************************)
\* The sum over the arguments, each valid pattern taken at its last position.
RECURSIVE SumAtLastPosition(_)
SumAtLastPosition(k) ==
    IF k = 0 THEN 0
    ELSE (IF /\ ValidatePattern(patterns[k])
             /\ \A j \in (k + 1)..Len(patterns) : patterns[j] # patterns[k]
          THEN results[patterns[k]]
          ELSE 0) + SumAtLastPosition(k - 1)

C4_GrandTotal ==
    Reported =>
        /\ DOMAIN results = ValidPatterns
        /\ PrintedTotals = <<TotalLine(SumAtLastPosition(Len(patterns)))>>

C4_Witness ==
    /\ Reported
    /\ Len(patterns) = 2
    /\ patterns[1] = patterns[2]
    /\ patterns[1] \in DOMAIN results
    /\ results[patterns[1]] > 0
    /\ PrintedTotals = <<TotalLine(results[patterns[1]])>>

(***************************************************************************)
(* C5. When the expansion of a pattern fails, countLocs reports it on      *)
(* standard error, stores no entry for it and goes on with the later       *)
(* patterns; the run does not abort, and the report is printed for the     *)
(* remaining patterns with a grand total that leaves the failed one out.   *)
(***************************************************************************)
C5_PatternErrorSkipped ==
    /\ \A k \in 1..Len(patterns) :
          k < pi =>
              IF ValidatePattern(patterns[k])
              THEN patterns[k] \in DOMAIN results
              ELSE /\ patterns[k] \notin DOMAIN results
                   /\ \E j \in DOMAIN stderr : stderr[j] = PatternError(patterns[k])
    /\ Reported =>
          /\ pi = Len(patterns) + 1
          /\ exitCode = 0
          /\ Len(SelectSeq(stderr, LAMBDA l : l.kind = "pattern error"))
                = Cardinality({k \in 1..Len(patterns) : ~ValidatePattern(patterns[k])})
          /\ PrintedTotals = <<TotalLine(SumOver([p \in ValidPatterns |-> ExpectedTotal(p)],
                                              ValidPatterns))>>
          /\ Len(patterns) > 1 =>
                {EntryLines[k].pattern : k \in DOMAIN EntryLines} = ValidPatterns

C5_Witness ==
    /\ Reported
    /\ Len(patterns) = 2
    /\ ~ValidatePattern(patterns[1])
    /\ ValidatePattern(patterns[2])
    /\ results[patterns[2]] > 0
    /\ stderr = <<PatternError(patterns[1])>>

(***************************************************************************)
(* C6. A run whose directory does not exist, or cannot be resolved to an   *)
(* absolute path, ends with a message on standard error and exit status 1  *)
(* and prints no report; counting is reached only with a root directory    *)
(* that exists.                                                            *)
(***************************************************************************)
C6_MissingDirectoryIsFatal ==
    /\ pc \in {"patterns", "files", "report"} => RootExists(root)
    /\ pc = "exit" /\ calls = 1
          /\ (Abs(dir, wdOk).err \/ ~RootExists(Abs(dir, wdOk).path))
          => exitCode = 1 /\ stdout = <<>> /\ stderr # <<>>

\* What the code does: only a failure of filepath.Abs is fatal.
C6_UnresolvableIsFatal ==
    /\ pc \in {"patterns", "files", "report"} => ~Abs(dir, wdOk).err
    /\ pc = "exit" /\ calls = 1 /\ Abs(dir, wdOk).err
          => exitCode = 1 /\ stdout = <<>> /\ stderr = <<ResolveError>>

(***************************************************************************)
(* C7. With no argument, or with one argument that is none of -h, --help,  *)
(* -v, --version, main prints the usage line to standard error and exits   *)
(* with status 1 without calling processInput; with one argument -h or     *)
(* --help, or -v or --version, it prints the help or the version and exits *)
(* with 0 without counting; processInput is called only with a directory   *)
(* and at least one pattern.                                               *)
(***************************************************************************)
NothingCounted ==
    /\ calls = 0
    /\ results = <<>>
    /\ \A w \in WorkerIds : wpc[w] = "none"

C7_ArgumentCheck ==
    /\ calls > 0 =>
          /\ Len(args) >= 3
          /\ dir = args[2]
          /\ patterns = SubSeq(args, 3, Len(args))
          /\ Len(patterns) >= 1
    /\ pc = "exit" /\ (Len(args) < 2 \/ (Len(args) = 2 /\ args[2] \notin Flags)) =>
          /\ exitCode = 1
          /\ stderr = <<UsageLine>>
          /\ stdout = <<>>
          /\ NothingCounted
    /\ pc = "exit" /\ Len(args) = 2 /\ args[2] \in Flags =>
          /\ exitCode = 0
          /\ stderr = <<>>
          /\ stdout = IF args[2] \in {"-h", "--help"} THEN <<HelpText>> ELSE <<VersionLine>>
          /\ NothingCounted

C7_Witness ==
    /\ pc = "exit"
    /\ args = <<ProgName, "src">>
    /\ exitCode = 1

(***************************************************************************)
(* C8. In every reachable state of countLocs at most runtime.NumCPU()      *)
(* goroutines hold a slot of the semaphore, however many files the pattern *)
(* matched and however many goroutines have been spawned.                  *)
(***************************************************************************)
Holders(i) == {p \in PathSet : HoldsSlot(<<i, p>>)}

C8_SemaphoreBound ==
    \A i \in PatIdx :
        /\ Cardinality(Holders(i)) <= NumCPU
        /\ Cardinality(Holders(i)) = sem[i]

C8_Witness ==
    \E i \in PatIdx :
        /\ Cardinality(Holders(i)) = NumCPU
        /\ \E p \in PathSet : wpc[<<i, p>>] = "start"

(***************************************************************************)
(* C9. results[pattern] is written only after every goroutine spawned for  *)
(* the pattern has done its atomic add and has ended, and no goroutine of  *)
(* a later pattern starts before the total of the previous pattern is      *)
(* written: all live goroutines belong to one pattern; the accumulator of  *)
(* a pattern starts at 0 and never changes after its total is read.        *)
(***************************************************************************)
C9_OnePatternAtATime ==
    \A w \in WorkerIds :
        /\ Live(w) => pc = "files" /\ w[1] = pi
        /\ wpc[w] # "none" /\ (w[1] < pi \/ pc \in {"report", "exit"}) => wpc[w] = "done"
        /\ wpc[w] # "none" => w[1] <= pi

C9_AccumulatorStep ==
    /\ pc = "patterns" /\ pc' = "files" => total'[pi] = 0
    /\ results' # results =>
          /\ \A p \in PathSet : ~Live(<<pi, p>>)
          /\ results'[patterns[pi]] = total[pi]
    /\ \A i \in PatIdx : i < pi \/ pc \in {"report", "exit"} => total'[i] = total[i]

C9_Barrier == []C9_OnePatternAtATime /\ [][C9_AccumulatorStep]_vars

C9_Witness ==
    /\ pc = "files"
    /\ pi = 2
    /\ \E p \in PathSet : Live(<<2, p>>)
    /\ Cardinality({p \in PathSet : wpc[<<1, p>>] = "done"}) >= 2
    /\ results[patterns[1]] = total[1]
    /\ total[1] > 0

(***************************************************************************)
(* C10. Under fair scheduling countLocs terminates for every number of     *)
(* matched files, also for more files than slots of the semaphore: every   *)
(* goroutine gets a slot, returns it and signals the wait group, wg.Wait   *)
(* returns for every pattern, and neither the main goroutine nor a spawned *)
(* one is blocked for ever.                                                *)
(***************************************************************************)
C10_Terminates ==
    /\ <>(pc = "exit")
    /\ [](pc # "exit" => ENABLED Next)
    /\ [](pc = "exit" => \A w \in WorkerIds : wpc[w] \in {"none", "done"})

C10_Witness ==
    /\ pc = "exit"
    /\ \E i \in PatIdx :
          Cardinality({p \in PathSet : wpc[<<i, p>>] = "done"}) > NumCPU

====
